---- MODULE Spec2Model ----
(***************************************************************************)
(* A model of quy_dashboard.py, a Streamlit script that is re-run from top *)
(* to bottom on every user interaction.  Three parts of the script carry   *)
(* state and logic:                                                        *)
(*   - the session handling around the "Update Data" button (lines 23-57), *)
(*   - the Chart tab's date filter feeding the Monte Carlo tab             *)
(*     (lines 166-173, 215 and 232-247),                                   *)
(*   - the Analysis tab's ranking scan (lines 264-317).                    *)
(* Each part has its own specification over the shared variables; the      *)
(* variables of the other parts stay at their idle values.                 *)
(*                                                                         *)
(* Prices are exact rationals <<numerator, denominator>> in lowest terms;  *)
(* closes are positive integers; dates are the positions 1, 2, ... of the  *)
(* trading days of a price history.                                        *)
(***************************************************************************)
EXTENDS Integers, Sequences, FiniteSets, TLC

VARIABLES
    \* ---- session (lines 23-57)
    selected_ticker,   \* the sidebar selectbox's value in the latest script run
    session_data,      \* st.session_state["data"]
    session_ticker,    \* st.session_state["ticker"]
    cache_data,        \* st.cache_data's memo of get_serializable_stock_data
    button,            \* whether the latest run was triggered by "Update Data"
    last_press,        \* the stock selected at the most recent press
    last_update,       \* the stock selected at the most recent press that stored data
    tabs_rendered,     \* whether the latest run reached st.tabs (line 60)
    n_runs,            \* script runs so far
    \* ---- Chart tab filter and Monte Carlo tab (lines 166-173, 215, 232-247)
    history,           \* data["history"]['Close'], oldest first
    start_date,        \* tab2 date inputs
    end_date,
    filtered_data,     \* the closes of tab2's filtered_data
    returns,           \* tab4 returns
    last_price,        \* tab4 last_price
    num_simulations,
    time_horizon,
    i_sim,             \* the outer loop's i (paths completed)
    prices,            \* the path under construction
    simulations,       \* the time_horizon x num_simulations array, by column
    error,             \* the exception that ended the script run, or None
    pc4,
    \* ---- Analysis tab (lines 264-317)
    provider,          \* which data provider answers: "full" or "large"
    industry_tickers,
    period_days,
    idx,               \* position of the for loop in industry_tickers
    results,
    fetched,           \* what the provider answered for the ticker just processed
    top_companies,
    shown,             \* what tab5 wrote: a table, or the no-data message
    pc5

sessionVars == <<selected_ticker, session_data, session_ticker, cache_data, button,
                 last_press, last_update, tabs_rendered, n_runs>>
simVars == <<history, start_date, end_date, filtered_data, returns, last_price,
             num_simulations, time_horizon, i_sim, prices, simulations, error, pc4>>
scanVars == <<provider, industry_tickers, period_days, idx, results, fetched,
              top_companies, shown, pc5>>
vars == <<sessionVars, simVars, scanVars>>

None == "None"

(***************************************************************************)
(* Bounds of the model.                                                    *)
(***************************************************************************)
MaxObs == 3        \* observations in a price history
MaxTickers == 2    \* tickers of an industry scanned against the full provider
MaxExtra == 1      \* tickers beyond the table size in a large industry
MaxSims == 2       \* largest number of simulations offered
MaxRuns == 5       \* script runs of one session

Closes == {1, 2}
Shares == {1, 2}
Min(a, b) == IF a <= b THEN a ELSE b
Max(a, b) == IF a >= b THEN a ELSE b

\* Every sequence over S of length lo..hi.
SeqsOf(S, lo, hi) == UNION {[1..n -> S] : n \in lo..hi}

(***************************************************************************)
(* Exact arithmetic on prices and returns.                                 *)
(***************************************************************************)
RECURSIVE GCD(_, _)
GCD(a, b) == IF b = 0 THEN a ELSE GCD(b, a % b)
Abs(a) == IF a < 0 THEN -a ELSE a
Rat(n, d) == LET g == GCD(Abs(n), d) IN <<n \div g, d \div g>>
RatOfInt(n) == <<n, 1>>
RatAdd(x, y) == Rat(x[1] * y[2] + y[1] * x[2], x[2] * y[2])
RatMul(x, y) == Rat(x[1] * y[1], x[2] * y[2])
RatOne == <<1, 1>>
RatZero == <<0, 1>>

(***************************************************************************)
(* Idle values of the three parts.                                         *)
(***************************************************************************)
\* No ticker processed yet.
Unfetched == [raises |-> "unfetched", info |-> <<>>, history |-> <<>>]

SessionIdle ==
    /\ selected_ticker = None
    /\ session_data = <<>>
    /\ session_ticker = None
    /\ cache_data = <<>>
    /\ button = FALSE
    /\ last_press = None
    /\ last_update = None
    /\ tabs_rendered = FALSE
    /\ n_runs = 0

ScanIdle ==
    /\ provider = "none"
    /\ industry_tickers = <<>>
    /\ period_days = 1
    /\ idx = 1
    /\ results = <<>>
    /\ fetched = Unfetched
    /\ top_companies = <<>>
    /\ shown = "nothing"
    /\ pc5 = "idle"

SimIdle ==
    /\ history = <<>>
    /\ start_date = 1
    /\ end_date = 1
    /\ filtered_data = <<>>
    /\ returns = <<>>
    /\ last_price = <<>>
    /\ num_simulations = 1
    /\ time_horizon = 2
    /\ i_sim = 0
    /\ prices = <<>>
    /\ simulations = <<>>
    /\ error = None
    /\ pc4 = "idle"

(***************************************************************************)
(* The session: stock selection and the "Update Data" button (lines 23-60).*)
(***************************************************************************)
\* Line 23: the symbols of the select box.
tickers == {"AAA", "BBB", "CCC"}

\* What the provider does when asked for a stock's data (lines 29-40): it
\* raises, or it serves the data it holds at that moment.
FetchAnswers == {[raises |-> TRUE, version |-> 1]}
                \cup {[raises |-> FALSE, version |-> v] : v \in {1, 2}}

\* Lines 27-40 under st.cache_data: the memoised value when the ticker was
\* fetched before, a fresh fetch otherwise; a fetch that raises stores nothing.
get_serializable_stock_data(cache, ticker, answer) ==
    IF ticker \in DOMAIN cache
    THEN [raised |-> FALSE, value |-> cache[ticker], cache |-> cache]
    ELSE IF answer.raises
    THEN [raised |-> TRUE, value |-> <<>>, cache |-> cache]
    ELSE LET fresh == [symbol |-> ticker, version |-> answer.version]
         IN [raised |-> FALSE,
             value |-> fresh,
             cache |-> [t \in DOMAIN cache \cup {ticker} |->
                           IF t = ticker THEN fresh ELSE cache[t]]]

\* Lines 43-45: the Ticker object of a symbol, named by its symbol.  The
\* constructor only records the symbol; it asks the provider nothing.
get_ticker_object(ticker) == ticker

\* Line 50: the block of lines 51-52 runs when the button was pressed.
update_requested_on_every_run(pressed) == TRUE
update_requested(pressed) == pressed

\* Line 55: the truth value of st.session_state["data"].  None (<<>>) is
\* false, the dictionary of lines 32-40 is true.
data_available(data) == data # <<>>

\* Lines 47-60 of one script run: the session state after it, whether the
\* run ended in an exception at line 51, and whether it reached the tabs.
script_run(data, ticker, cache, selected, pressed, answer) ==
    IF update_requested(pressed)
    THEN LET got == get_serializable_stock_data(cache, selected, answer)
         IN IF got.raised
            THEN [data |-> data, ticker |-> ticker, cache |-> cache,
                  raised |-> TRUE, tabs |-> FALSE]
            ELSE [data |-> got.value, ticker |-> get_ticker_object(selected),
                  cache |-> got.cache, raised |-> FALSE,
                  tabs |-> data_available(got.value)]
    ELSE [data |-> data, ticker |-> ticker, cache |-> cache,
          raised |-> FALSE, tabs |-> data_available(data)]

\* A script run triggered by anything but the button: the first load, or a
\* change of the selected stock or of another widget.
Rerun ==
    /\ n_runs < MaxRuns
    /\ \E selected \in tickers, answer \in FetchAnswers :
          LET out == script_run(session_data, session_ticker, cache_data,
                                selected, FALSE, answer)
          IN /\ selected_ticker' = selected
             /\ session_data' = out.data
             /\ session_ticker' = out.ticker
             /\ cache_data' = out.cache
             /\ tabs_rendered' = out.tabs
    /\ button' = FALSE
    /\ n_runs' = n_runs + 1
    /\ UNCHANGED <<last_press, last_update>>
    /\ UNCHANGED <<simVars, scanVars>>

\* A script run triggered by a press of "Update Data", with the stock that is
\* selected at that moment.
UpdateData ==
    /\ n_runs < MaxRuns
    /\ selected_ticker # None
    /\ \E answer \in FetchAnswers :
          LET out == script_run(session_data, session_ticker, cache_data,
                                selected_ticker, TRUE, answer)
          IN /\ session_data' = out.data
             /\ session_ticker' = out.ticker
             /\ cache_data' = out.cache
             /\ tabs_rendered' = out.tabs
             /\ last_update' = IF out.raised THEN last_update ELSE selected_ticker
    /\ button' = TRUE
    /\ last_press' = selected_ticker
    /\ n_runs' = n_runs + 1
    /\ UNCHANGED selected_ticker
    /\ UNCHANGED <<simVars, scanVars>>

\* A new session: nothing stored, nothing cached, no script run yet.
InitSession ==
    /\ SessionIdle
    /\ SimIdle
    /\ ScanIdle

NextSession == Rerun \/ UpdateData

SpecSession == InitSession /\ [][NextSession]_vars

(***************************************************************************)
(* Claims about the session.                                               *)
(***************************************************************************)
\* The symbol the stored data and the stored Ticker object belong to.
StoredFor(symbol) ==
    /\ session_data # <<>>
    /\ session_data.symbol = symbol
    /\ session_ticker = symbol

NothingStored == session_data = <<>> /\ session_ticker = None

\* A run without a press leaves both stored values as they were.
C10_Frame == ~button' => UNCHANGED <<session_data, session_ticker>>

\* C10 as stated: the tabs are rendered only after a press; what is stored
\* belongs to the stock selected at the most recent press; a run without a
\* press changes neither stored value.
C10_StoredForLastPress ==
    [][/\ tabs_rendered' => last_press' # None
       /\ ~NothingStored' => StoredFor(last_press)'
       /\ C10_Frame]_vars

\* C10 as amended: the tabs are rendered only after a press; the stored data
\* and Ticker object are either both absent or both of the stock selected at
\* the most recent press whose fetch did not raise; a press whose fetch
\* raises, like a run without a press, changes neither stored value.
C10_StoredForLastCompletedUpdate ==
    [][/\ tabs_rendered' => last_press' # None
       /\ IF last_update' = None THEN NothingStored' ELSE StoredFor(last_update)'
       /\ last_update' # last_update => (button' /\ last_update' = last_press')
       /\ last_update' = last_update => UNCHANGED <<session_data, session_ticker>>
       /\ C10_Frame]_vars

\* The selected stock has changed since the press and nothing was stored for it.
C10_Witness ==
    /\ ~button
    /\ tabs_rendered
    /\ last_press # None
    /\ selected_ticker # last_press
    /\ StoredFor(last_press)
    /\ n_runs >= 3

(***************************************************************************)
(* Analysis tab: the ranking scan (lines 264-317).                         *)
(***************************************************************************)
\* The lookback windows of date_options (line 264: 1, 30, 90, 180, 365),
\* scaled to the history lengths of the model.
date_options == {1, 2}

TopK == 10

Histories == SeqsOf(Closes, 0, MaxObs)

\* The info dictionaries of the provider: with a sharesOutstanding entry, or
\* without one (the empty dictionary).
Infos == {<<>>} \cup {[sharesOutstanding |-> s] : s \in Shares}

\* What the provider can answer for one ticker (lines 275-277): the call that
\* raises, if any ("history": line 276; "info": line 277; "malformed": the
\* history has no usable Close column, so line 285 raises), the info
\* dictionary and the closes of the 1-year history, oldest first.
Responses ==
    {[raises |-> "none", info |-> d, history |-> h] : d \in Infos, h \in Histories}
    \cup {[raises |-> "history", info |-> <<>>, history |-> <<>>]}
    \cup {[raises |-> "info", info |-> <<>>, history |-> h] : h \in Histories}
    \cup {[raises |-> "malformed", info |-> d, history |-> h] :
        d \in Infos, h \in Histories}

\* The answers of a provider that serves every ticker of a large industry:
\* a price that rose and a price that fell over the last two days.
LargeResponses ==
    {[raises |-> "none", info |-> [sharesOutstanding |-> 1], history |-> <<1, 1, 2>>],
     [raises |-> "none", info |-> [sharesOutstanding |-> 1], history |-> <<2, 2, 1>>]}

\* The answers the provider can give for a ticker.
Answers(p) == IF p = "large" THEN LargeResponses ELSE Responses

\* pandas .iloc[k] on a sequence: k >= 0 counts from the start (0-based),
\* k < 0 from the end.
iloc(s, k) == IF k < 0 THEN s[Len(s) + k + 1] ELSE s[k + 1]

\* Lines 285-287.
market_cap_change(hist, shares_outstanding, N) ==
    LET start_price == iloc(hist, -N)
        end_price == iloc(hist, -1)
    IN (end_price * shares_outstanding) - (start_price * shares_outstanding)

\* Lines 290-292: the handler of the loop body's try; the exception goes no
\* further and the loop continues with the entries collected so far.
except_continue_abort(res) == [results |-> res, propagated |-> TRUE]
except_continue(res) == [results |-> res, propagated |-> FALSE]

\* Line 284, the length test guarding the computation.
has_lookback_loose(hist, N) == Len(hist) >= N
has_lookback(hist, N) == Len(hist) > N

\* Lines 273-292: one iteration of the loop over industry_tickers.
\* info.get("sharesOutstanding", None) is None when the entry is absent.
scan_ticker(res, ticker, resp, N) ==
    IF resp.raises \in {"history", "info"}
    THEN except_continue(res)
    ELSE IF "sharesOutstanding" \notin DOMAIN resp.info \/ resp.history = <<>>
    THEN [results |-> res, propagated |-> FALSE]
    ELSE IF has_lookback(resp.history, N)
    THEN IF resp.raises = "malformed"
         THEN except_continue(res)
         ELSE [results |->
                  Append(res, [Ticker |-> ticker,
                               MarketCapChange |->
                                   market_cap_change(resp.history,
                                                     resp.info.sharesOutstanding,
                                                     N)]),
               propagated |-> FALSE]
    ELSE [results |-> res, propagated |-> FALSE]

\* DataFrame.sort_values(by="Market Cap Change", ascending=False), line 296:
\* rows in non-increasing order of the change.  Rows with equal changes are
\* kept in their order of collection.
RECURSIVE insert_desc(_, _)
insert_desc(sorted, row) ==
    IF sorted = <<>> THEN <<row>>
    ELSE IF Head(sorted).MarketCapChange >= row.MarketCapChange
    THEN <<Head(sorted)>> \o insert_desc(Tail(sorted), row)
    ELSE <<row>> \o sorted

RECURSIVE sort_values_from(_, _)
sort_values_from(sorted, rows) ==
    IF rows = <<>> THEN sorted
    ELSE sort_values_from(insert_desc(sorted, Head(rows)), Tail(rows))

sort_values_unsorted(rows) == rows
sort_values(rows) == sort_values_from(<<>>, rows)

\* DataFrame.head(n), line 296.
head(rows, n) == SubSeq(rows, 1, Min(n, Len(rows)))

\* Lines 295-317: what the tab shows once the loop is over.
tab5_output_always_table(res) ==
    [shown |-> "table", top_companies |-> head(sort_values(res), TopK)]
tab5_output(res) ==
    IF res # <<>>
    THEN [shown |-> "table", top_companies |-> head(sort_values(res), TopK)]
    ELSE [shown |-> "no_data", top_companies |-> <<>>]

\* Lines 272-292, one iteration: the provider answers for the next ticker.
ScanTicker ==
    /\ pc5 = "scan"
    /\ idx <= Len(industry_tickers)
    /\ \E resp \in Answers(provider) :
          LET out == scan_ticker(results, industry_tickers[idx], resp, period_days)
          IN /\ fetched' = resp
             /\ results' = out.results
             /\ IF out.propagated
                THEN /\ pc5' = "aborted"
                     /\ shown' = "exception"
                     /\ idx' = idx
                ELSE /\ pc5' = "scan"
                     /\ shown' = shown
                     /\ idx' = idx + 1
    /\ UNCHANGED <<provider, industry_tickers, period_days, top_companies>>
    /\ UNCHANGED <<sessionVars, simVars>>

\* Lines 295-317, after the loop.
RankResults ==
    /\ pc5 = "scan"
    /\ idx > Len(industry_tickers)
    /\ LET out == tab5_output(results)
       IN /\ shown' = out.shown
          /\ top_companies' = out.top_companies
    /\ pc5' = "done"
    /\ UNCHANGED <<provider, industry_tickers, period_days, idx, results, fetched>>
    /\ UNCHANGED <<sessionVars, simVars>>

\* The tab's state when the loop starts (lines 254-270): an industry's
\* tickers, the selected period, no results yet.
InitScan ==
    /\ SessionIdle
    /\ SimIdle
    /\ period_days \in date_options
    /\ \/ /\ provider = "full"
          /\ \E u \in 0..MaxTickers : industry_tickers = [k \in 1..u |-> k]
       \/ /\ provider = "large"
          /\ \E u \in (TopK - 1)..(TopK + MaxExtra) :
                industry_tickers = [k \in 1..u |-> k]
    /\ idx = 1
    /\ results = <<>>
    /\ fetched = Unfetched
    /\ top_companies = <<>>
    /\ shown = "nothing"
    /\ pc5 = "scan"

NextScan == ScanTicker \/ RankResults

SpecScan == InitScan /\ [][NextScan]_vars

(***************************************************************************)
(* Claims about the ranking scan.                                          *)
(***************************************************************************)
\* The ticker whose iteration has just ended.
JustScanned == industry_tickers[idx - 1]

InResults(t) == \E k \in 1..Len(results) : results[k].Ticker = t

\* A scanning state with a ticker left to process.
Scanning == pc5 = "scan" /\ idx <= Len(industry_tickers)

\* C1 as the spec states it: the change recorded for an included symbol is
\* (latest close - the close N observations before the latest) * shares
\* outstanding.
C1_ChangeOverNObservations ==
    (fetched # Unfetched /\ pc5 = "scan" /\ InResults(JustScanned)) =>
        LET h == fetched.history
        IN results[Len(results)].MarketCapChange =
               (h[Len(h)] - h[Len(h) - period_days]) * fetched.info.sharesOutstanding

\* C2: an iteration whose fetch or processing raises is skipped and nothing
\* else: the loop moves on to the next ticker, the entries collected so far
\* stay, the scan is never aborted, and it ends only after the last ticker.
C2_FailureSkipsOnlyThatSymbol ==
    [][/\ Scanning =>
            /\ pc5' = "scan"
            /\ idx' = idx + 1
            /\ Len(results') >= Len(results)
            /\ SubSeq(results', 1, Len(results)) = results
            /\ (fetched'.raises # "none" => results' = results)
       /\ (pc5' = "done" =>
            /\ idx' = Len(industry_tickers) + 1
            /\ results' = results)
       /\ pc5' # "aborted"]_vars

C2_Witness ==
    /\ pc5 = "done"
    /\ shown = "table"
    /\ fetched # Unfetched
    /\ fetched.raises = "info"
    /\ Len(results) = 1
    /\ Len(industry_tickers) = 2

\* The symbols the spec admits to the ranking.
Valid(resp, N) ==
    /\ resp.raises = "none"
    /\ "sharesOutstanding" \in DOMAIN resp.info
    /\ resp.history # <<>>
    /\ Len(resp.history) >= N + 1

\* C3: every iteration adds the entry of its ticker when the fetch succeeded,
\* shares outstanding is present and the history is non-empty with at least
\* N+1 observations, and otherwise adds nothing at all; nothing else changes
\* the results.
C3_IncludedIffValid ==
    [][/\ Scanning =>
            IF Valid(fetched', period_days)
            THEN /\ Len(results') = Len(results) + 1
                 /\ SubSeq(results', 1, Len(results)) = results
                 /\ results'[Len(results')].Ticker = industry_tickers[idx]
            ELSE results' = results
       /\ ~Scanning => results' = results]_vars

C3_Witness ==
    /\ pc5 = "scan"
    /\ idx = 3
    /\ fetched # Unfetched
    /\ fetched.raises = "none"
    /\ "sharesOutstanding" \in DOMAIN fetched.info
    /\ Len(fetched.history) = period_days
    /\ Len(results) = 1
    /\ results[1].Ticker = 1

RowsOf(rows) == {rows[k] : k \in 1..Len(rows)}

\* C4: with at least one entry collected, the table is in non-increasing
\* order of the change, has min(10, entries) rows, all of them collected
\* entries, and no entry left out has a larger change than an entry kept.
C4_TopTenDescending ==
    (pc5 = "done" /\ results # <<>>) =>
        /\ top_companies # <<>>
        /\ Len(top_companies) = Min(10, Len(results))
        /\ \A k \in 1..(Len(top_companies) - 1) :
              top_companies[k].MarketCapChange >= top_companies[k + 1].MarketCapChange
        /\ RowsOf(top_companies) \subseteq RowsOf(results)
        /\ Cardinality(RowsOf(top_companies)) = Len(top_companies)
        /\ \A out \in RowsOf(results) \ RowsOf(top_companies) :
              \A kept \in RowsOf(top_companies) :
                 out.MarketCapChange <= kept.MarketCapChange

C4_Witness ==
    /\ pc5 = "done"
    /\ Len(results) = 11
    /\ Len(top_companies) = 10
    /\ results[1].MarketCapChange < results[2].MarketCapChange
    /\ top_companies[10].MarketCapChange > results[1].MarketCapChange

\* C8: the scan shows the no-data message, and no table, exactly when no
\* entry was collected; with at least one entry it shows the table, whatever
\* the changes are.
C8_EmptyResultSignal ==
    /\ pc5 = "done" =>
          /\ results = <<>> => (shown = "no_data" /\ top_companies = <<>>)
          /\ results # <<>> => (shown = "table" /\ top_companies # <<>>)
    /\ pc5 = "scan" => (shown = "nothing" /\ top_companies = <<>>)

C8_Witness ==
    /\ pc5 = "done"
    /\ shown = "no_data"
    /\ Len(industry_tickers) >= 2
    /\ fetched.raises = "history"

(***************************************************************************)
(* Chart tab's date filter and the Monte Carlo tab (lines 162-247).        *)
(***************************************************************************)
\* The options of the two select boxes of tab4 (line 232: 200, 500, 1000;
\* line 233: 30, 60, 90), scaled down.  Every horizon offered is at least 2,
\* so the inner loop of line 240 runs at least once.
NumSimOptions == 1..MaxSims
HorizonOptionsFromOne == {1, 2, 3}
HorizonOptions == {2, 3}

\* The dates the two date inputs of tab2 can be set to.
DateOptions == 1..MaxObs

\* Line 173: the rows whose date lies in [start, end].  Row p of the history
\* has date p, so the rows kept are consecutive.
chart_filter(hist, start, end) == SubSeq(hist, Max(start, 1), Min(end, Len(hist)))

\* Line 234: Series.pct_change().dropna().  The first row has no previous
\* close, and dropna removes it.
pct_change_dropna(closes) ==
    [k \in 1..(Len(closes) - 1) |-> Rat(closes[k + 1] - closes[k], closes[k])]

\* Line 235.
tab4_last_price(closes) == RatOfInt(iloc(closes, -1))

\* Line 237: np.zeros((time_horizon, num_simulations)), as its columns.
zeros(rows, cols) == [j \in 1..cols |-> [t \in 1..rows |-> RatZero]]

\* Line 239.
path_seed_first_close(last, closes) == <<RatOfInt(closes[1])>>
path_seed(last, closes) == <<last>>

\* Line 241: the values np.random.choice(returns) can give.
random_choice(sample) == {sample[k] : k \in 1..Len(sample)}

\* Line 241: prices[-1] * (1 + r).
next_price_without_one(prev, r) == RatMul(prev, r)
next_price(prev, r) == RatMul(prev, RatAdd(RatOne, r))

\* Lines 162-219: the Chart tab filters the history by the two dates and
\* draws it.  Line 215 takes max() of the filtered volumes, which raises
\* ValueError when no row is left; nothing catches it and the script run ends.
ChartTab ==
    /\ pc4 = "tab2"
    /\ filtered_data' = chart_filter(history, start_date, end_date)
    /\ IF filtered_data' = <<>>
       THEN /\ error' = "ValueError"
            /\ pc4' = "stopped"
       ELSE /\ error' = error
            /\ pc4' = "tab4"
    /\ UNCHANGED <<history, start_date, end_date, returns, last_price,
                   num_simulations, time_horizon, i_sim, prices, simulations>>
    /\ UNCHANGED <<sessionVars, scanVars>>

\* Lines 232-237: the sample, the starting price and the empty array, all
\* from the filtered_data the Chart tab left behind.
MonteCarloSetup ==
    /\ pc4 = "tab4"
    /\ returns' = pct_change_dropna(filtered_data)
    /\ IF filtered_data = <<>>
       THEN /\ error' = "IndexError"
            /\ pc4' = "stopped"
            /\ UNCHANGED <<last_price, simulations>>
       ELSE /\ last_price' = tab4_last_price(filtered_data)
            /\ simulations' = zeros(time_horizon, num_simulations)
            /\ error' = error
            /\ pc4' = "path"
    /\ UNCHANGED <<history, start_date, end_date, filtered_data,
                   num_simulations, time_horizon, i_sim, prices>>
    /\ UNCHANGED <<sessionVars, scanVars>>

\* Lines 238-239: the next path starts.
PathStart ==
    /\ pc4 = "path"
    /\ i_sim < num_simulations
    /\ prices' = path_seed(last_price, filtered_data)
    /\ pc4' = "steps"
    /\ UNCHANGED <<history, start_date, end_date, filtered_data, returns, last_price,
                   num_simulations, time_horizon, i_sim, simulations, error>>
    /\ UNCHANGED <<sessionVars, scanVars>>

\* Lines 240-241: one step of the path.  np.random.choice raises ValueError
\* on an empty sample; nothing catches it and the script run ends.
PathStep ==
    /\ pc4 = "steps"
    /\ Len(prices) - 1 < time_horizon - 1
    /\ IF returns = <<>>
       THEN /\ error' = "ValueError"
            /\ pc4' = "stopped"
            /\ prices' = prices
       ELSE /\ \E r \in random_choice(returns) :
                  prices' = Append(prices, next_price(prices[Len(prices)], r))
            /\ error' = error
            /\ pc4' = pc4
    /\ UNCHANGED <<history, start_date, end_date, filtered_data, returns, last_price,
                   num_simulations, time_horizon, i_sim, simulations>>
    /\ UNCHANGED <<sessionVars, scanVars>>

\* Line 242: the finished path becomes column i of the array.
PathStore ==
    /\ pc4 = "steps"
    /\ Len(prices) - 1 = time_horizon - 1
    /\ simulations' = [simulations EXCEPT ![i_sim + 1] = prices]
    /\ i_sim' = i_sim + 1
    /\ pc4' = "path"
    /\ UNCHANGED <<history, start_date, end_date, filtered_data, returns, last_price,
                   num_simulations, time_horizon, prices, error>>
    /\ UNCHANGED <<sessionVars, scanVars>>

\* Lines 244-247: every column is drawn.
PlotPaths ==
    /\ pc4 = "path"
    /\ i_sim = num_simulations
    /\ pc4' = "rendered"
    /\ UNCHANGED <<history, start_date, end_date, filtered_data, returns, last_price,
                   num_simulations, time_horizon, i_sim, prices, simulations, error>>
    /\ UNCHANGED <<sessionVars, scanVars>>

\* A script run with data in the session (line 55), about to enter the Chart
\* tab: the stored history, the dates and the options chosen in the widgets.
InitSim ==
    /\ SessionIdle
    /\ ScanIdle
    /\ history \in SeqsOf(Closes, 1, MaxObs)
    /\ start_date \in DateOptions
    /\ end_date \in DateOptions
    /\ num_simulations \in NumSimOptions
    /\ time_horizon \in HorizonOptions
    /\ filtered_data = <<>>
    /\ returns = <<>>
    /\ last_price = <<>>
    /\ i_sim = 0
    /\ prices = <<>>
    /\ simulations = <<>>
    /\ error = None
    /\ pc4 = "tab2"

NextSim == ChartTab \/ MonteCarloSetup \/ PathStart \/ PathStep \/ PathStore \/ PlotPaths

SpecSim == InitSim /\ [][NextSim]_vars

(***************************************************************************)
(* Claims about the simulation.                                            *)
(***************************************************************************)
\* The columns of the array that hold a finished path.
StoredPaths == {simulations[j] : j \in 1..i_sim}

\* C5: a finished simulation holds exactly num_simulations paths of exactly
\* time_horizon prices each, and every path stored starts at the starting
\* price of the simulation.
C5_BatchShape ==
    /\ pc4 \in {"path", "steps", "rendered"} =>
          /\ Len(simulations) = num_simulations
          /\ \A j \in 1..Len(simulations) : Len(simulations[j]) = time_horizon
          /\ \A j \in 1..i_sim : simulations[j][1] = last_price
    /\ pc4 = "rendered" => i_sim = num_simulations

C5_Witness ==
    /\ pc4 = "rendered"
    /\ num_simulations = 2
    /\ time_horizon = 3
    /\ simulations[1] # simulations[2]
    /\ last_price # RatOfInt(filtered_data[1])

\* price = previous * (1 + r), on the integers of the three fractions.
IsStepBy(price, previous, r) ==
    price[1] * previous[2] * r[2] = price[2] * previous[1] * (r[2] + r[1])

TraceableToSample(path) ==
    \A t \in 2..Len(path) :
        \E k \in 1..Len(returns) : IsStepBy(path[t], path[t - 1], returns[k])

\* C6: in every path, stored or under construction, each price after the
\* first is the previous price times (1 + r) for an element r of the sample.
C6_StepsFromSample ==
    pc4 \in {"path", "steps", "rendered"} =>
        /\ \A path \in StoredPaths : TraceableToSample(path)
        /\ pc4 = "steps" => TraceableToSample(prices)

\* A path of two steps over a sample of one element: both steps drew it.
C6_Witness ==
    /\ pc4 = "rendered"
    /\ time_horizon = 3
    /\ Len(returns) = 1
    /\ returns[1] # RatZero
    /\ simulations[1][3] # simulations[1][1]

\* C7 as the spec states it: the starting price is the close of the most
\* recent observation of the session's price series, whatever the dates of
\* the Chart tab.
C7_SeededFromLastKnownClose ==
    pc4 \in {"path", "steps", "rendered"} =>
        last_price = RatOfInt(history[Len(history)])

\* The Chart tab has run.
Filtered == pc4 # "tab2"

\* No path was stored and none is drawn.
NoPaths == i_sim = 0 /\ pc4 # "rendered"

====
